---- MODULE Spec2Model ----
(***************************************************************************)
(* CloudOps-Assistant: the offline index builder (embeddings.py) and the   *)
(* online retriever (app.py).                                              *)
(*                                                                         *)
(* Text is a sequence of one-character strings; offsets are Python's       *)
(* 0-based offsets, so text[i:j] is SubSeq(text, i + 1, j).                *)
(***************************************************************************)
EXTENDS Integers, Sequences, FiniteSets, TLC

\* ------------------------------------------------------------------------
\* Bounds of the model
\* ------------------------------------------------------------------------
MaxLen == 10
MaxMarks == 2
MaxChunk == 5
MaxOverlap == 2
MaxFiles == 2
MaxTopK == 3
MaxDist == 2
MaxCtx == 3

\* Python's None, and a value that is not None
None == [some |-> FALSE]
Some(x) == [some |-> TRUE, val |-> x]

Min(a, b) == IF a <= b THEN a ELSE b
Max(a, b) == IF a >= b THEN a ELSE b

\* ------------------------------------------------------------------------
\* Strings
\* ------------------------------------------------------------------------
NL == "\n"
Whitespace == {" ", NL}
MarkChars == {".", " ", NL}

\* text[i:j] for 0 <= i, j (Python clamps j to the length; i >= j is empty)
Slice(s, i, j) == SubSeq(s, i + 1, Min(j, Len(s)))

\* str.strip(): drop leading and trailing whitespace
Strip(s) ==
    LET keep == {i \in 1..Len(s) : s[i] \notin Whitespace}
    IN  IF keep = {} THEN <<>>
        ELSE LET lo == CHOOSE i \in keep : \A j \in keep : i <= j
                 hi == CHOOSE i \in keep : \A j \in keep : i >= j
             IN  SubSeq(s, lo, hi)

\* str.rfind(sub): the highest 0-based offset at which sub occurs, or -1
RFind(s, sub) ==
    LET at == {p \in 0..(Len(s) - Len(sub)) : SubSeq(s, p + 1, p + Len(sub)) = sub}
    IN  IF at = {} THEN -1 ELSE CHOOSE p \in at : \A q \in at : p >= q

\* ------------------------------------------------------------------------
\* IndexBuilder.chunk_document (embeddings.py)
\* ------------------------------------------------------------------------
\* the delimiter list of the for loop, in its order
Delimiters == << <<".", " ">>, <<NL, NL>>, <<NL>>, <<".", " ">> >>

\* end = min(start + chunk_size, len(text))
WindowEnd(txt, st, cs) == Min(st + cs, Len(txt))

\* the test of the for loop's if: chunk.rfind(delimiter) > start + chunk_size // 2
DelimiterAccepted(last_delim, st, cs) == last_delim > st + (cs \div 2)

\* the index in Delimiters of the delimiter at which the for loop breaks, 0 if none
BreakDelimiter(txt, st, cs) ==
    LET chunk == Slice(txt, st, WindowEnd(txt, st, cs))
        hit == {k \in 1..Len(Delimiters) :
                   DelimiterAccepted(RFind(chunk, Delimiters[k]), st, cs)}
    IN  IF hit = {} THEN 0 ELSE CHOOSE k \in hit : \A m \in hit : k <= m

\* the value of end when the chunk is appended
CutEnd(txt, st, cs) ==
    LET e0 == WindowEnd(txt, st, cs)
        k == BreakDelimiter(txt, st, cs)
    IN  IF e0 < Len(txt) /\ k # 0
        THEN st + RFind(Slice(txt, st, e0), Delimiters[k]) + Len(Delimiters[k])
        ELSE e0

\* NextStart stepping back by the overlap without the clamp
NextStartBack(e, ov, n) == IF e < n THEN e - ov ELSE e

\* start = max(end - overlap, end) if end < len(text) else end
NextStart(e, ov, n) == IF e < n THEN Max(e - ov, e) ELSE e

\* chunk_document as a whole: the chunks appended from offset st on
RECURSIVE ChunksFrom(_, _, _, _)
ChunksFrom(txt, st, cs, ov) ==
    IF st >= Len(txt) THEN <<>>
    ELSE LET e == CutEnd(txt, st, cs)
         IN  <<Strip(Slice(txt, st, e))>> \o ChunksFrom(txt, NextStart(e, ov, Len(txt)), cs, ov)

chunk_document(txt, cs, ov) ==
    IF Len(txt) <= cs THEN <<txt>> ELSE ChunksFrom(txt, 0, cs, ov)

\* ------------------------------------------------------------------------
\* IndexBuilder.read_documents and build_index (embeddings.py)
\* ------------------------------------------------------------------------
\* main() calls build_index(chunk_size=800, overlap=150)
BuildChunkSize == 800
BuildOverlap == 150

MODEL_NAME == "sentence-transformers/all-MiniLM-L6-v2"
DocExtensions == {".md", ".txt", ".py", ".json", ".rst"}

\* the files a docs folder may hold
FilePool ==
    { [name |-> "k8s.md", ext |-> ".md", readable |-> TRUE, content |-> <<"k", " ", "p">>],
      [name |-> "docker.txt", ext |-> ".txt", readable |-> TRUE, content |-> <<"d", NL>>],
      [name |-> "blank.md", ext |-> ".md", readable |-> TRUE, content |-> <<" ", NL>>],
      [name |-> "logo.png", ext |-> ".png", readable |-> TRUE, content |-> <<"x">>],
      [name |-> "bad.rst", ext |-> ".rst", readable |-> FALSE, content |-> <<"y">>] }

IsInjective(f) == \A i, j \in DOMAIN f : f[i] = f[j] => i = j

\* os.listdir(DOCS_FOLDER): up to MaxFiles distinct files in any order; None
\* is a docs folder that does not exist
Folders ==
    {None} \cup { Some(f) : f \in UNION { {g \in [1..n -> FilePool] : IsInjective(g)}
                                          : n \in 0..MaxFiles } }

\* read_documents: the files kept, in listing order
RECURSIVE KeptFiles(_)
KeptFiles(folder) ==
    IF folder = <<>> THEN <<>>
    ELSE LET f == Head(folder)
             keep == /\ f.ext \in DocExtensions
                     /\ f.readable
                     /\ Strip(f.content) # <<>>
         IN  (IF keep THEN <<f>> ELSE <<>>) \o KeptFiles(Tail(folder))

read_documents(folder) ==
    LET kept == IF folder.some THEN KeptFiles(folder.val) ELSE <<>>
    IN  [documents |-> [i \in 1..Len(kept) |-> Strip(kept[i].content)],
         sources |-> [i \in 1..Len(kept) |-> kept[i].name]]

\* the chunk_metadata records of one document (lines 110-119); doc_idx and
\* chunk_idx count from 0
DocRecords(document, source, doc_idx, cs, ov) ==
    LET cks == chunk_document(document, cs, ov)
    IN  [c \in 1..Len(cks) |->
            [source_file |-> source,
             doc_index |-> doc_idx,
             chunk_index |-> c - 1,
             chunk_id |-> <<source, "_chunk_", c>>,
             content |-> cks[c],
             char_count |-> Len(cks[c])]]

\* lines 106-119 over all documents
RECURSIVE ChunkMetadata(_, _, _, _, _)
ChunkMetadata(documents, sources, from, cs, ov) ==
    IF from > Len(documents) THEN <<>>
    ELSE DocRecords(documents[from], sources[from], from - 1, cs, ov)
            \o ChunkMetadata(documents, sources, from + 1, cs, ov)

\* model.encode: the vector of a chunk is determined by its content
Embed(content) == <<"vec", content>>

\* lines 132-148: the index holds the vectors of all_chunks in order
BuildVectors(chunk_metadata) ==
    [i \in 1..Len(chunk_metadata) |-> Embed(chunk_metadata[i].content)]

\* lines 163-176 (created_at and the fixed dimension left out)
BuildMetadata(documents, sources, chunk_metadata, cs, ov) ==
    [model_name |-> MODEL_NAME,
     total_documents |-> Len(documents),
     total_chunks |-> Len(chunk_metadata),
     chunk_size |-> cs,
     chunk_overlap |-> ov,
     source_files |-> sources,
     ntotal |-> Len(chunk_metadata)]

\* ------------------------------------------------------------------------
\* CloudOpsAssistant._auto_load_database (app.py)
\* ------------------------------------------------------------------------
\* RequiredFilesExist with any in place of all
AnyFileExists(idx, ch, meta) == idx.some \/ ch.some \/ meta.some

\* all(os.path.exists(f) for f in required_files)
RequiredFilesExist(idx, ch, meta) == idx.some /\ ch.some /\ meta.some

\* reading file number k raises: it is absent, or it cannot be read or parsed
ReadRaises(file, k, fail_at) == ~file.some \/ fail_at = k

\* the fields of self and the return value after _auto_load_database
auto_load_database(idx, ch, meta, fail_at) ==
    IF ~RequiredFilesExist(idx, ch, meta)
    THEN [index |-> None, chunks |-> None, metadata |-> None, ret |-> FALSE,
          shown |-> {"db_not_found"}]
    ELSE IF ReadRaises(idx, 1, fail_at)
    THEN [index |-> None, chunks |-> None, metadata |-> None, ret |-> FALSE,
          shown |-> {"load_error"}]
    ELSE IF ReadRaises(ch, 2, fail_at)
    THEN [index |-> idx, chunks |-> None, metadata |-> None, ret |-> FALSE,
          shown |-> {"load_error"}]
    ELSE IF ReadRaises(meta, 3, fail_at)
    THEN [index |-> idx, chunks |-> ch, metadata |-> None, ret |-> FALSE,
          shown |-> {"load_error"}]
    ELSE [index |-> idx, chunks |-> ch, metadata |-> meta, ret |-> TRUE,
          shown |-> {}]

\* ------------------------------------------------------------------------
\* CloudOpsAssistant.search_knowledge_base (app.py)
\* ------------------------------------------------------------------------
\* FLT_MAX, the distance faiss reports with a label of -1: above every distance
PadDistance == MaxDist + 1

\* the positions of dist in order of ascending distance, the lower position
\* first among equals
RECURSIVE Nearest(_, _)
Nearest(dist, todo) ==
    IF todo = {} THEN <<>>
    ELSE LET best == CHOOSE i \in todo :
                        \A j \in todo : dist[i] < dist[j] \/ (dist[i] = dist[j] /\ i <= j)
         IN  <<best>> \o Nearest(dist, todo \ {best})

\* index.search(query_embedding, k): k (distance, label) pairs, labels from 0,
\* padded with (FLT_MAX, -1) when the index holds fewer than k vectors
FaissSearch(dist, k) ==
    LET order == Nearest(dist, DOMAIN dist)
    IN  [i \in 1..k |-> IF i <= Len(order)
                        THEN [distance |-> dist[order[i]], idx |-> order[i] - 1]
                        ELSE [distance |-> PadDistance, idx |-> -1]]

\* SearchK without the clamp to the chunk count
SearchKUnclamped(top_k, n) == top_k

\* min(top_k, len(self.chunks))
SearchK(top_k, n) == Min(top_k, n)

\* seq[idx] for a Python index, negative indices counting from the end
PyAt(seq, idx) == IF idx >= 0 THEN seq[idx + 1] ELSE seq[Len(seq) + idx + 1]

\* 1 / (1 + distance), as a fraction
SimilarityScore(distance) == [num |-> 1, den |-> 1 + distance]

\* lines 99-110: the results of the hits whose label is below len(self.chunks)
RECURSIVE Results(_, _, _)
Results(hits, cks, i) ==
    IF i > Len(hits) THEN <<>>
    ELSE (IF hits[i].idx < Len(cks)
          THEN << [rank |-> i,
                   source_file |-> PyAt(cks, hits[i].idx).source_file,
                   content |-> PyAt(cks, hits[i].idx).content,
                   similarity_score |-> SimilarityScore(hits[i].distance)] >>
          ELSE <<>>) \o Results(hits, cks, i + 1)

\* index and cks are self.index and self.chunks, model the value returned by
\* get_embedding_model, dist the L2 distance of the query to each index vector
search_knowledge_base(index, cks, model, top_k, dist) ==
    IF ~index.some \/ ~cks.some THEN <<>>
    ELSE IF ~model.some THEN <<>>
    ELSE Results(FaissSearch(dist, SearchK(top_k, Len(cks.val))), cks.val, 1)

\* ------------------------------------------------------------------------
\* CloudOpsAssistant.generate_cloudops_answer and _generate_fallback_answer
\* ------------------------------------------------------------------------
\* a text is the sequence of its pieces, each piece a sequence of strings
Piece(str) == <<str>>

\* ', '.join(sources)
RECURSIVE Join(_)
Join(sources) ==
    IF sources = <<>> THEN <<>>
    ELSE IF Len(sources) = 1 THEN <<Piece(sources[1])>>
    ELSE <<Piece(Head(sources)), Piece(", ")>> \o Join(Tail(sources))

SourcesOf(context_chunks) ==
    [i \in 1..Len(context_chunks) |-> context_chunks[i].source_file]

\* generate_fallback_answer naming only the first source
FallbackFirstSourceOnly(q, context_chunks) ==
    IF context_chunks = <<>>
    THEN <<Piece("I found information related to '"), q,
           Piece("' but couldn't generate a comprehensive answer.")>>
    ELSE <<Piece("I found relevant information in: ")>>
            \o <<Piece(context_chunks[1].source_file)>>
            \o <<Piece(". For detailed information about '"), q,
                 Piece("', please refer to the context sections below.")>>

\* the text returned by _generate_fallback_answer
generate_fallback_answer(q, context_chunks) ==
    IF context_chunks = <<>>
    THEN <<Piece("I found information related to '"), q,
           Piece("' but couldn't generate a comprehensive answer.")>>
    ELSE <<Piece("I found relevant information in: ")>>
            \o Join(SourcesOf(context_chunks))
            \o <<Piece(". For detailed information about '"), q,
                 Piece("', please refer to the context sections below.")>>

\* what requests.post and the reading of its response can come to
ApiOutcomes == {"200_text", "200_null", "200_malformed", "non200", "timeout", "exception"}

\* the value generate_cloudops_answer returns
generate_cloudops_answer(key, outcome, q, context_chunks) ==
    IF ~key THEN None
    ELSE CASE outcome = "200_text" -> Some(<<Piece("generated answer")>>)
           [] outcome = "200_null" -> None
           [] OTHER -> Some(generate_fallback_answer(q, context_chunks))

\* ------------------------------------------------------------------------
\* State
\* ------------------------------------------------------------------------
VARIABLES
    text, chunk_size, overlap,   \* the arguments of chunk_document
    start, end, chunks,          \* its locals
    cpc,                         \* its position: "call", "loop", "done"
    idx_file, chunks_file, meta_file,   \* vectorstore/: the three artifacts
    build,                       \* build_index: its locals between the writes
    bpc,                         \* its position: "idle", "index_written", "chunks_written"
    success,                     \* the value build_index last returned
    self_index, self_chunks, self_metadata,  \* the fields of the CloudOpsAssistant
    loaded,                      \* the value _auto_load_database returned
    api_key,                     \* OPENROUTER_API_KEY is set
    query, top_k,                \* the arguments of search_knowledge_base
    embedding_model,             \* the value of get_embedding_model
    distances,                   \* the distance of the query to each index vector
    search_results,              \* the value of search_knowledge_base
    api_outcome,                 \* what the generation request came to
    answer,                      \* the value of generate_cloudops_answer
    shown,                       \* the messages main has put on the page
    apc                          \* the position of main (app.py)

chunkVars == <<text, chunk_size, overlap, start, end, chunks, cpc>>
diskVars == <<idx_file, chunks_file, meta_file>>
buildVars == <<build, bpc, success>>
selfVars == <<self_index, self_chunks, self_metadata, loaded, api_key>>
searchVars == <<query, top_k, embedding_model, distances, search_results>>
answerVars == <<api_outcome, answer>>
appVars == <<selfVars, searchVars, answerVars, shown, apc>>
vars == <<chunkVars, diskVars, buildVars, appVars>>

\* the chunker at rest, for the specifications that do not step through it
ChunkerIdle ==
    /\ text = <<>>
    /\ chunk_size = BuildChunkSize
    /\ overlap = BuildOverlap
    /\ start = 0
    /\ end = 0
    /\ chunks = <<>>
    /\ cpc = "done"

\* no build under way, nothing persisted
BuilderIdle ==
    /\ idx_file = None
    /\ chunks_file = None
    /\ meta_file = None
    /\ build = None
    /\ bpc = "idle"
    /\ success = None

\* no CloudOpsAssistant constructed
AppIdle ==
    /\ self_index = None
    /\ self_chunks = None
    /\ self_metadata = None
    /\ loaded = None
    /\ api_key = FALSE
    /\ query = <<>>
    /\ top_k = 0
    /\ embedding_model = None
    /\ distances = <<>>
    /\ search_results = <<>>
    /\ api_outcome = None
    /\ answer = None
    /\ shown = {}
    /\ apc = "idle"

\* ------------------------------------------------------------------------
\* chunk_document, one loop iteration at a time
\* ------------------------------------------------------------------------
\* the texts chunk_document is called on: letters with at most MaxMarks
\* characters of '.', ' ' and newline among them
Documents ==
    UNION { UNION { { [i \in 1..n |-> IF i \in P THEN m[i] ELSE "a"] : m \in [P -> MarkChars] }
                    : P \in {Q \in SUBSET (1..n) : Cardinality(Q) <= MaxMarks} }
            : n \in 0..MaxLen }

\* the documents read_documents returns: stripped and non-empty
StrippedDocuments == {d \in Documents : d # <<>> /\ Strip(d) = d}

ChunkInit ==
    /\ text \in Documents
    /\ chunk_size \in 1..MaxChunk
    /\ overlap \in 0..MaxOverlap
    /\ start = 0
    /\ end = 0
    /\ chunks = <<>>
    /\ cpc = "call"
    /\ BuilderIdle
    /\ AppIdle

\* lines 65-69: the short-document return, or the loop is entered
ChunkCall ==
    /\ cpc = "call"
    /\ IF Len(text) <= chunk_size
       THEN /\ chunks' = <<text>>
            /\ cpc' = "done"
       ELSE /\ chunks' = <<>>
            /\ cpc' = "loop"
    /\ start' = 0
    /\ UNCHANGED <<text, chunk_size, overlap, end>>
    /\ UNCHANGED <<diskVars, buildVars, appVars>>

\* lines 71-89: one iteration of the while loop
ChunkIter ==
    /\ cpc = "loop"
    /\ start < Len(text)
    /\ end' = CutEnd(text, start, chunk_size)
    /\ chunks' = Append(chunks, Strip(Slice(text, start, end')))
    /\ start' = NextStart(end', overlap, Len(text))
    /\ cpc' = IF start' >= Len(text) THEN "done" ELSE "loop"
    /\ UNCHANGED <<text, chunk_size, overlap>>
    /\ UNCHANGED <<diskVars, buildVars, appVars>>

ChunkNext == ChunkCall \/ ChunkIter

ChunkSpec == ChunkInit /\ [][ChunkNext]_vars

\* ------------------------------------------------------------------------
\* The builder script: main and build_index (embeddings.py), up to each write
\* ------------------------------------------------------------------------
\* lines 208-218 and 93-155: the rebuild question, reading, chunking, embedding
\* and the write of the index file
BuildMain ==
    /\ bpc = "idle"
    /\ apc = "idle"
    /\ \E folder \in Folders, rebuild \in BOOLEAN :
         IF idx_file.some /\ ~rebuild
         THEN UNCHANGED <<diskVars, buildVars>>
         ELSE LET r == read_documents(folder)
                  cm == ChunkMetadata(r.documents, r.sources, 1, BuildChunkSize, BuildOverlap)
              IN  IF r.documents = <<>> \/ cm = <<>>
                  THEN /\ success' = Some(FALSE)
                       /\ UNCHANGED <<diskVars, build, bpc>>
                  ELSE /\ idx_file' = Some(BuildVectors(cm))
                       /\ build' = Some([chunk_metadata |-> cm,
                                         metadata |-> BuildMetadata(r.documents, r.sources, cm,
                                                                    BuildChunkSize, BuildOverlap)])
                       /\ bpc' = "index_written"
                       /\ success' = None
                       /\ UNCHANGED <<chunks_file, meta_file>>
    /\ UNCHANGED <<chunkVars, appVars>>

\* lines 158-160
BuildWriteChunks ==
    /\ bpc = "index_written"
    /\ chunks_file' = Some(build.val.chunk_metadata)
    /\ bpc' = "chunks_written"
    /\ UNCHANGED <<idx_file, meta_file, build, success>>
    /\ UNCHANGED <<chunkVars, appVars>>

\* lines 163-199
BuildWriteMetadata ==
    /\ bpc = "chunks_written"
    /\ meta_file' = Some(build.val.metadata)
    /\ bpc' = "idle"
    /\ build' = None
    /\ success' = Some(TRUE)
    /\ UNCHANGED <<idx_file, chunks_file>>
    /\ UNCHANGED <<chunkVars, appVars>>

\* the build run ends between two writes (killed, or a write raises)
BuildInterrupted ==
    /\ bpc \in {"index_written", "chunks_written"}
    /\ bpc' = "idle"
    /\ build' = None
    /\ UNCHANGED <<diskVars, success>>
    /\ UNCHANGED <<chunkVars, appVars>>

\* ------------------------------------------------------------------------
\* The application: one run of main (app.py)
\* ------------------------------------------------------------------------
Queries == { <<"k">>, <<"k", " ", "p">>, <<"z">>, <<" ">> }

\* lines 199-204: the assistant is constructed and loads the database; main
\* stops when there is no index
AppStart ==
    /\ apc = "idle"
    /\ bpc = "idle"
    /\ \E key \in BOOLEAN, fail_at \in 0..3 :
         LET r == auto_load_database(idx_file, chunks_file, meta_file, fail_at)
         IN  /\ self_index' = r.index
             /\ self_chunks' = r.chunks
             /\ self_metadata' = r.metadata
             /\ loaded' = Some(r.ret)
             /\ api_key' = key
             /\ IF ~r.index.some
                THEN /\ shown' = r.shown \cup {"kb_not_loaded"}
                     /\ apc' = "stopped"
                ELSE /\ shown' = r.shown
                     /\ apc' = "ready"
    /\ UNCHANGED <<searchVars, answerVars>>
    /\ UNCHANGED <<chunkVars, diskVars, buildVars>>

\* lines 241-248 and 267-268: the search of a submitted question
AppQuery ==
    /\ apc = "ready"
    /\ \E q \in Queries, k \in 1..MaxTopK, model \in {None, Some("SentenceTransformer")},
          dist \in [1..Len(self_index.val) -> 0..MaxDist] :
         IF Strip(q) = <<>>
         THEN /\ query' = q
              /\ shown' = shown \cup {"enter_question"}
              /\ apc' = "prompted"
              /\ UNCHANGED <<top_k, embedding_model, distances, search_results>>
         ELSE LET called == self_index.some /\ self_chunks.some
                  res == search_knowledge_base(self_index, self_chunks, model, k, dist)
              IN  /\ query' = q
                  /\ top_k' = k
                  /\ embedding_model' = IF called THEN model ELSE None
                  /\ distances' = IF called /\ model.some THEN dist ELSE <<>>
                  /\ search_results' = res
                  /\ IF res = <<>>
                     THEN /\ shown' = shown \cup {"no_relevant"}
                                        \cup (IF called /\ ~model.some
                                              THEN {"st_not_installed"} ELSE {})
                          /\ apc' = "no_results"
                     ELSE /\ shown' = shown
                          /\ apc' = "searched"
    /\ UNCHANGED <<selfVars, answerVars>>
    /\ UNCHANGED <<chunkVars, diskVars, buildVars>>

\* what main shows for the value generate_cloudops_answer returned
ShownForAnswer(key, outcome, ans) ==
    (IF ~key THEN {"key_missing"} ELSE {})
        \cup (IF key /\ outcome \notin {"200_text", "200_null"} THEN {"api_warning"} ELSE {})
        \cup (IF ans.some THEN {"answer", "sources"} ELSE {})

\* lines 250-265: the answer is generated and shown
AppGenerate ==
    /\ apc = "searched"
    /\ \E outcome \in ApiOutcomes :
         LET got == IF api_key THEN outcome ELSE "not_called"
             ans == generate_cloudops_answer(api_key, got, query, search_results)
         IN  /\ api_outcome' = Some(got)
             /\ answer' = ans
             /\ shown' = shown \cup ShownForAnswer(api_key, got, ans)
    /\ apc' = "answered"
    /\ UNCHANGED <<selfVars, searchVars>>
    /\ UNCHANGED <<chunkVars, diskVars, buildVars>>

\* the run of the script ends; the next run constructs a new assistant
AppEnd ==
    /\ apc \in {"stopped", "prompted", "no_results", "answered"}
    /\ self_index' = None
    /\ self_chunks' = None
    /\ self_metadata' = None
    /\ loaded' = None
    /\ api_key' = FALSE
    /\ query' = <<>>
    /\ top_k' = 0
    /\ embedding_model' = None
    /\ distances' = <<>>
    /\ search_results' = <<>>
    /\ api_outcome' = None
    /\ answer' = None
    /\ shown' = {}
    /\ apc' = "idle"
    /\ UNCHANGED <<chunkVars, diskVars, buildVars>>

Init == ChunkerIdle /\ BuilderIdle /\ AppIdle

Next ==
    \/ BuildMain
    \/ BuildWriteChunks
    \/ BuildWriteMetadata
    \/ BuildInterrupted
    \/ AppStart
    \/ AppQuery
    \/ AppGenerate
    \/ AppEnd

Spec == Init /\ [][Next]_vars

\* ------------------------------------------------------------------------
\* generate_cloudops_answer called on its own
\* ------------------------------------------------------------------------
\* the retrieved chunks a caller may pass
ResultPool ==
    { [rank |-> 1, source_file |-> "k8s.md", content |-> <<"k", " ", "p">>,
       similarity_score |-> SimilarityScore(0)],
      [rank |-> 2, source_file |-> "docker.txt", content |-> <<"d">>,
       similarity_score |-> SimilarityScore(1)],
      [rank |-> 3, source_file |-> "k8s.md", content |-> <<"p">>,
       similarity_score |-> SimilarityScore(2)] }

Contexts == UNION { [1..n -> ResultPool] : n \in 0..MaxCtx }

AnswerInit ==
    /\ ChunkerIdle
    /\ BuilderIdle
    /\ self_index = None
    /\ self_chunks = None
    /\ self_metadata = None
    /\ loaded = None
    /\ api_key \in BOOLEAN
    /\ query \in {q \in Queries : Strip(q) # <<>>}
    /\ top_k = 0
    /\ embedding_model = None
    /\ distances = <<>>
    /\ search_results \in Contexts
    /\ api_outcome = None
    /\ answer = None
    /\ shown = {}
    /\ apc = "generate_call"

\* lines 116-170 with context_chunks = search_results
GenerateCall ==
    /\ apc = "generate_call"
    /\ \E outcome \in ApiOutcomes :
         LET got == IF api_key THEN outcome ELSE "not_called"
         IN  /\ api_outcome' = Some(got)
             /\ answer' = generate_cloudops_answer(api_key, got, query, search_results)
    /\ apc' = "generate_returned"
    /\ UNCHANGED <<selfVars, searchVars, shown>>
    /\ UNCHANGED <<chunkVars, diskVars, buildVars>>

AnswerNext == GenerateCall

AnswerSpec == AnswerInit /\ [][AnswerNext]_vars

\* ------------------------------------------------------------------------
\* Properties
\* ------------------------------------------------------------------------
Range(f) == {f[i] : i \in DOMAIN f}

\* C1: whenever _auto_load_database succeeds, the loaded index and the loaded
\* chunk records come from one build run: as many vectors as chunk records, and
\* vector i is the embedding of chunk record i. (Fails: a rebuild interrupted
\* after the index write leaves the new index beside the old chunk records.)
C1_LoadedFromOneBuild ==
    (apc # "idle" /\ loaded = Some(TRUE)) =>
        /\ Len(self_index.val) = Len(self_chunks.val)
        /\ \A i \in 1..Len(self_chunks.val) :
              self_index.val[i] = Embed(self_chunks.val[i].content)

\* C2: for a document longer than chunk_size and 0 < overlap < chunk_size, each
\* window after the first starts overlap characters before the offset at which
\* the previous chunk ended. (Fails: max(end - overlap, end) is end.)
C2_NextWindowStepsBack ==
    (/\ cpc = "loop"
     /\ chunks # <<>>
     /\ Len(text) > chunk_size
     /\ 0 < overlap
     /\ overlap < chunk_size) => start = end - overlap

\* C3: every chunk chunk_document returns for a stripped, non-empty document
\* and chunk_size >= 1 has a character count above 0. (Fails: a window of
\* interior whitespace strips to the empty chunk.)
C3_NoEmptyChunk ==
    text \in StrippedDocuments =>
        \A i \in 1..Len(chunks) : Len(chunks[i]) > 0

\* C4: every call of generate_cloudops_answer with a non-empty list of chunks
\* returns an answer text, whatever the request comes to and whether the API
\* key is set or not. (Fails: None without the key, and on a null content.)
C4_AlwaysAnAnswer ==
    (apc = "answered" /\ search_results # <<>>) =>
        /\ answer.some
        /\ answer.val # <<>>

\* the pieces of a text that are source file names, in order
SourceNamePieces(txt) ==
    SelectSeq(txt, LAMBDA p : p \in {Piece(r.source_file) : r \in ResultPool})

\* C5: when the request returns a non-success status, times out or raises,
\* generate_cloudops_answer returns the fallback text, which names the
\* source_file of every chunk passed in, in retrieval order; with no chunks it
\* returns the message that no comprehensive answer could be generated.
C5_FallbackNamesSources ==
    (/\ apc = "generate_returned"
     /\ api_outcome.val \in {"non200", "timeout", "exception", "200_malformed"}) =>
        /\ answer.some
        /\ IF search_results = <<>>
           THEN Piece("' but couldn't generate a comprehensive answer.") \in Range(answer.val)
           ELSE /\ answer.val[1] = Piece("I found relevant information in: ")
                /\ SourceNamePieces(answer.val) =
                      [i \in 1..Len(search_results) |-> Piece(search_results[i].source_file)]

\* C5 witness: a timed-out request with three chunks of two sources answered
C5_Witness ==
    /\ apc = "generate_returned"
    /\ api_outcome = Some("timeout")
    /\ Len(search_results) = 3
    /\ search_results[1].source_file # search_results[2].source_file
    /\ answer.some

\* C6: when an artifact is absent at startup the Retriever loads none of the
\* three, main reports the knowledge base as not loaded and stops, and the run
\* never shows the "no relevant information" response.
C6_MissingArtifactStops ==
    (apc # "idle" /\ ~(idx_file.some /\ chunks_file.some /\ meta_file.some)) =>
        /\ ~self_index.some
        /\ ~self_chunks.some
        /\ ~self_metadata.some
        /\ loaded = Some(FALSE)
        /\ apc = "stopped"
        /\ "kb_not_loaded" \in shown
        /\ "no_relevant" \notin shown

\* C6 witness: the application started on an index file without chunk records
C6_Witness ==
    /\ apc = "stopped"
    /\ idx_file.some
    /\ ~chunks_file.some
    /\ "kb_not_loaded" \in shown

\* the whitespace-separated words of a text
WordsOf(s) ==
    { SubSeq(s, i, j) : <<i, j>> \in
        { w \in (1..Len(s)) \X (1..Len(s)) :
            /\ w[1] <= w[2]
            /\ \A m \in w[1]..w[2] : s[m] \notin Whitespace
            /\ (w[1] = 1 \/ s[w[1] - 1] \in Whitespace)
            /\ (w[2] = Len(s) \/ s[w[2] + 1] \in Whitespace) } }

\* the number of words of q present in the chunk content c
SharedWords(q, c) == Cardinality(WordsOf(q) \cap WordsOf(c))

\* C7: with the database loaded and no embedding model, the search returns up
\* to top_k of the chunks that share a word with the query, ordered by the
\* fraction of query words they hold, and no chunk that shares none. (Fails:
\* the search returns nothing without the model.)
C7_LexicalFallback ==
    (/\ apc \in {"searched", "no_results"}
     /\ loaded = Some(TRUE)
     /\ ~embedding_model.some) =>
        LET cks == self_chunks.val
            matching == {i \in 1..Len(cks) : SharedWords(query, cks[i].content) > 0}
        IN  /\ Len(search_results) = Min(top_k, Cardinality(matching))
            /\ \A r \in 1..Len(search_results) :
                  \E i \in matching : cks[i].content = search_results[r].content
            /\ \A r \in 1..(Len(search_results) - 1) :
                  SharedWords(query, search_results[r].content)
                      >= SharedWords(query, search_results[r + 1].content)

\* a >= b for two fractions
ScoreAtLeast(a, b) == a.num * b.den >= b.num * a.den

\* C8: with N >= 1 chunks, an index of size N and an embedding model, the
\* search returns exactly min(top_k, N) results, ranked 1..min(top_k, N) by
\* non-increasing similarity score, and they are the nearest chunks.
C8_TopKResults ==
    (/\ apc \in {"searched", "no_results"}
     /\ loaded = Some(TRUE)
     /\ embedding_model.some
     /\ Len(self_index.val) = Len(self_chunks.val)) =>
        LET cks == self_chunks.val
            n == Len(cks)
            k == Min(top_k, n)
        IN  /\ Len(search_results) = k
            /\ \A r \in 1..Len(search_results) : search_results[r].rank = r
            /\ \A r \in 1..(Len(search_results) - 1) :
                  ScoreAtLeast(search_results[r].similarity_score,
                               search_results[r + 1].similarity_score)
            /\ \E pos \in [1..Len(search_results) -> 1..n] :
                  /\ IsInjective(pos)
                  /\ \A r \in 1..Len(search_results) :
                        /\ search_results[r].content = cks[pos[r]].content
                        /\ search_results[r].source_file = cks[pos[r]].source_file
                        /\ search_results[r].similarity_score.den = 1 + distances[pos[r]]
                        /\ search_results[r].similarity_score.num = 1
                        /\ \A j \in (1..n) \ Range(pos) : distances[j] >= distances[pos[r]]

\* C8 witness: top_k = 3 over a chunk set of size 1 returned exactly 1 result
C8_Witness ==
    /\ apc = "searched"
    /\ loaded = Some(TRUE)
    /\ embedding_model.some
    /\ top_k = 3
    /\ Len(self_index.val) = 1
    /\ Len(self_chunks.val) = 1
    /\ Len(search_results) = 1

\* C9: every iteration of the loop of chunk_document moves start strictly
\* forward and not past the end of the text, and the loop ends exactly when
\* start reaches the text length, for every overlap >= 0.
C9_StartAdvances ==
    [][cpc = "loop" =>
          /\ start' > start
          /\ start' <= Len(text)
          /\ Len(chunks') = Len(chunks) + 1
          /\ (cpc' = "done") = (start' = Len(text))]_vars

\* C9 witness: a document chunked in three or more windows with an overlap
\* that is at least the chunk size
C9_Witness ==
    /\ cpc = "done"
    /\ overlap >= chunk_size
    /\ Len(chunks) >= 3
    /\ start = Len(text)

\* the cut the preference order gives for the window at st, the midpoint
\* counted from the start of the window
RECURSIVE PreferredCut(_, _, _, _)
PreferredCut(txt, st, cs, k) ==
    LET window == Slice(txt, st, st + cs)
        prefer == << <<".", " ">>, <<NL, NL>>, <<NL>> >>
    IN  IF k > Len(prefer) THEN st + cs
        ELSE IF RFind(window, prefer[k]) > cs \div 2
             THEN st + RFind(window, prefer[k]) + Len(prefer[k])
             ELSE PreferredCut(txt, st, cs, k + 1)

\* C10: every window that does not reach the end of the text, at any start
\* offset, is cut right after the last occurrence of the first delimiter in
\* preference order that lies past the midpoint of the window, and is the
\* fixed-size slice when there is none. (Fails after the first window: the
\* test compares the offset in the window with start + chunk_size // 2.)
C10_CutAtPreferredDelimiter ==
    [][(cpc = "loop" /\ start + chunk_size < Len(text)) =>
          end' = PreferredCut(text, start, chunk_size, 1)]_vars

\* C11: after _auto_load_database has returned, whatever its outcome, the
\* index, the chunk records and the metadata of the assistant are all loaded
\* or all None. (Fails: the fields are assigned one by one inside the try, so
\* a read that raises leaves the fields read before it loaded.)
C11_AllLoadedOrNone ==
    apc # "idle" =>
        \/ (self_index.some /\ self_chunks.some /\ self_metadata.some)
        \/ (~self_index.some /\ ~self_chunks.some /\ ~self_metadata.some)

====
